---- MODULE Spec2Model ----
(***************************************************************************)
(* Model of modules/cmake.py: one run of main(), which prepares the source *)
(* (directory or archive), configures it with cmake in a scratch build     *)
(* directory, runs "make install" there and removes its scratch            *)
(* directories.                                                            *)
(*                                                                         *)
(* Python strings are finite sequences of text chunks; "%s" formatting and *)
(* "+=" are concatenation of such sequences, so that "the message embeds   *)
(* the stream" is the existence of a contiguous sub-sequence.              *)
(***************************************************************************)
EXTENDS Integers, Sequences, FiniteSets, TLC

\* ---------------------------------------------------------------- bounds
\* Scratch names mkdtemp() can hand out.
MaxTmp == 3
\* Largest number of entries of the defines mapping.
MaxDefines == 2
\* Largest exit code a subprocess returns.
MaxRc == 2

\* ---------------------------------------------------------------- values
\* Python's None; it is distinct from every string of the model.
None == <<"<None>">>

\* Python truthiness of an optional string: None and '' are false.
Falsy(v) == v = None \/ v = <<>>

\* str(n) used by "%s" on an integer.
Str(n) == <<ToString(n)>>

\* sub occurs in s as a contiguous run of chunks.
Contains(s, sub) ==
    \E i \in 1..(Len(s) + 1) :
        /\ i + Len(sub) - 1 <= Len(s)
        /\ SubSeq(s, i, i + Len(sub) - 1) = sub

\* ------------------------------------------------------ the file system
ProjDir == <<"/tmp/proj">>
TarFile == <<"/tmp/proj.tar.gz">>
ZipFile == <<"/tmp/proj.zip">>
\* A file both tarfile.is_tarfile and zipfile.is_zipfile accept.
BothFile == <<"/tmp/proj.tar.zip">>
TextFile == <<"/tmp/notes.txt">>
Missing == <<"/tmp/missing">>

\* The names mkdtemp() draws from.
TmpName(i) == <<"/tmp/tmp", ToString(i)>>
TmpNames == { TmpName(i) : i \in 1..MaxTmp }

\* os.path.isfile, tarfile.is_tarfile, zipfile.is_zipfile
Files == {TarFile, ZipFile, BothFile, TextFile}
isfile(p) == p \in Files
is_tarfile(p) == p \in {TarFile, BothFile}
is_zipfile(p) == p \in {ZipFile, BothFile}
\* os.path.isdir against the directories that exist
isdir(p, ds) == p \in ds

\* ----------------------------------------------------------- parameters
SrcPaths == {ProjDir, TarFile, ZipFile, BothFile, TextFile, Missing, TmpName(1)}
InstallDirs == {<<"/opt/x">>, <<"/tmp/out">>}
CmakePaths == {<<"cmake">>, <<"/usr/local/bin/cmake">>}

DefineName(i) ==
    IF i = 1 THEN <<"FOO">> ELSE IF i = 2 THEN <<"BAR">> ELSE <<"VAR", ToString(i)>>
DefineNames == { DefineName(i) : i \in 1..MaxDefines }
DefineValues == {<<"1">>, <<"2">>}

\* A dict in iteration order: a sequence of <<name, value>> with distinct names.
DefineItems ==
    UNION { { s \in [1..n -> DefineNames \X DefineValues] :
                \A i, j \in 1..n : i # j => s[i][1] # s[j][1] } : n \in 0..MaxDefines }
\* The defines parameter: None, or a dict.
DefinesValues ==
    { [none |-> TRUE, items |-> <<>>] } \cup { [none |-> FALSE, items |-> s] : s \in DefineItems }

Stderrs == { <<>>, <<"CMake Error">>, <<"make: *** Error ", "2">> }

VARIABLES
    params,         \* module.params
    dirs,           \* the directories that exist
    tree,           \* what each existing directory holds
    pc,             \* position of main()
    src_dir,        \* main's local src_dir
    cmake_dir,      \* main's local cmake_dir
    build_dir,      \* main's local build_dir
    cmake_command,  \* main's local cmake_command
    rc, err,        \* main's locals rc, err
    result,         \* how the run ended
    prep,           \* history: the call of prepare_if_archive
    created,        \* history: directories this run made with mkdtemp
    removed,        \* history: directories this run passed to rmtree
    calls,          \* history: the run_command calls, in order
    steps           \* history: the steps taken, in order

vars == <<params, dirs, tree, pc, src_dir, cmake_dir, build_dir, cmake_command,
          rc, err, result, prep, created, removed, calls, steps>>

\* ---------------------------------------------------------------- results
NoResult == [kind |-> "none", failed |-> FALSE, changed |-> FALSE, msg |-> None, install_dir |-> None]

\* module.fail_json(msg=m): emits the failure record and exits the process.
fail_json(m) == [kind |-> "fail_json", failed |-> TRUE, changed |-> FALSE, msg |-> m, install_dir |-> None]

\* module.exit_json(changed=c, install_dir=d): emits the record and exits.
exit_json(c, d) == [kind |-> "exit_json", failed |-> FALSE, changed |-> c, msg |-> None, install_dir |-> d]

\* An exception nobody catches leaves main(): no record is emitted.
Uncaught == [kind |-> "exception", failed |-> FALSE, changed |-> FALSE, msg |-> None, install_dir |-> None]

MsgNoSource == <<"Source is not a directory or known archive format">>
MsgNoRoot == <<"Could not find CMake root directory">>
MsgBuildFailed(e) == <<"Failed to generate build files, exit code ">> \o e
MakeInstall == <<"make install">>

\* ------------------------------------------------------------- functions
\* A locator that finds no root.
find_root_cmake_finds_nothing(d) == None

find_root_cmake(d) == d

\* A preparer that takes every file that is no tar archive for a zip archive.
prepare_if_archive_any_file(src, ds, tr, d, ok) ==
    IF isdir(src, ds) THEN
        [ret |-> src, raised |-> FALSE, dirs |-> ds, tree |-> tr]
    ELSE IF isfile(src) THEN
        [ret |-> IF ok THEN d ELSE None, raised |-> ~ok, dirs |-> ds \cup {d},
         tree |-> [x \in ds \cup {d} |-> IF x = d THEN "partial" ELSE tr[x]]]
    ELSE
        [ret |-> None, raised |-> FALSE, dirs |-> ds, tree |-> tr]

\* prepare_if_archive(src) run against directories ds holding tr; d is the
\* name mkdtemp() returns, ok whether extractall() completes.
prepare_if_archive(src, ds, tr, d, ok) ==
    IF isdir(src, ds) THEN
        [ret |-> src, raised |-> FALSE, dirs |-> ds, tree |-> tr]
    ELSE IF isfile(src) /\ is_tarfile(src) THEN
        [ret |-> IF ok THEN d ELSE None, raised |-> ~ok, dirs |-> ds \cup {d},
         tree |-> [x \in ds \cup {d} |-> IF x = d THEN (IF ok THEN "tar members" ELSE "partial") ELSE tr[x]]]
    ELSE IF isfile(src) /\ is_zipfile(src) THEN
        [ret |-> IF ok THEN d ELSE None, raised |-> ~ok, dirs |-> ds \cup {d},
         tree |-> [x \in ds \cup {d} |-> IF x = d THEN (IF ok THEN "zip members" ELSE "partial") ELSE tr[x]]]
    ELSE
        [ret |-> None, raised |-> FALSE, dirs |-> ds, tree |-> tr]

RECURSIVE define_flags(_)
define_flags(items) ==
    IF items = <<>> THEN <<>>
    ELSE <<" -D">> \o items[1][1] \o <<"=">> \o items[1][2] \o define_flags(Tail(items))

\* A builder that appends the project directory before the defines.
create_cmake_command_defines_last(cmake_path, project_dir, install_dir, defines) ==
    cmake_path
        \o (<<" -DCMAKE_INSTALL_PREFIX=">> \o install_dir)
        \o (<<" ">> \o project_dir)
        \o (IF ~defines.none /\ defines.items # <<>> THEN define_flags(defines.items) ELSE <<>>)

create_cmake_command(cmake_path, project_dir, install_dir, defines) ==
    cmake_path
        \o (<<" -DCMAKE_INSTALL_PREFIX=">> \o install_dir)
        \o (IF ~defines.none /\ defines.items # <<>> THEN define_flags(defines.items) ELSE <<>>)
        \o (<<" ">> \o project_dir)

\* Exit-code tests that only see negative codes.
configure_failed_negative_only(r) == r < 0
install_failed_negative_only(r) == r < 0

\* "if rc != 0" after the configure subprocess / after the install subprocess
configure_failed(r) == r # 0
install_failed(r) == r # 0

\* A cleanup that removes the source directory whoever owns it.
to_remove_unconditional(sd, src, bd) == {sd, bd}

\* "if src_dir != module.params['src']: rmtree(src_dir)" then "rmtree(build_dir)"
to_remove(sd, src, bd) == (IF sd # src THEN {sd} ELSE {}) \cup {bd}

\* ---------------------------------------------------------------- machine
Init ==
    /\ params \in [src : SrcPaths, defines : DefinesValues,
                   install_dir : InstallDirs, cmake : CmakePaths]
    /\ dirs \in { {ProjDir}, {ProjDir, TmpName(1)} }
    /\ tree = [x \in dirs |-> "project"]
    /\ pc = "prepare"
    /\ src_dir = None
    /\ cmake_dir = None
    /\ build_dir = None
    /\ cmake_command = None
    /\ rc = 0
    /\ err = None
    /\ result = NoResult
    /\ prep = [called |-> FALSE, ret |-> None, raised |-> FALSE, before |-> {}, after |-> {},
               held |-> <<>>]
    /\ created = {}
    /\ removed = {}
    /\ calls = <<>>
    /\ steps = <<>>

\* src_dir = prepare_if_archive(module.params['src']); if not src_dir: fail_json
Prepare ==
    /\ pc = "prepare"
    /\ \E d \in TmpNames \ dirs, ok \in BOOLEAN :
        LET r == prepare_if_archive(params.src, dirs, tree, d, ok) IN
        /\ dirs' = r.dirs
        /\ tree' = r.tree
        /\ created' = created \cup (r.dirs \ dirs)
        /\ prep' = [called |-> TRUE, ret |-> r.ret, raised |-> r.raised,
                    before |-> dirs, after |-> r.dirs, held |-> r.tree]
        /\ steps' = Append(steps, "prepare")
        /\ IF r.raised THEN
              /\ result' = Uncaught
              /\ pc' = "done"
              /\ UNCHANGED src_dir
           ELSE
              /\ src_dir' = r.ret
              /\ IF Falsy(r.ret)
                 THEN result' = fail_json(MsgNoSource) /\ pc' = "done"
                 ELSE result' = result /\ pc' = "locate"
    /\ UNCHANGED <<params, cmake_dir, build_dir, cmake_command, rc, err, removed, calls>>

\* cmake_dir = find_root_cmake(src_dir); if not cmake_dir: fail_json
Locate ==
    /\ pc = "locate"
    /\ cmake_dir' = find_root_cmake(src_dir)
    /\ steps' = Append(steps, "locate")
    /\ IF Falsy(cmake_dir')
       THEN result' = fail_json(MsgNoRoot) /\ pc' = "done"
       ELSE result' = result /\ pc' = "mkdtemp"
    /\ UNCHANGED <<params, dirs, tree, src_dir, build_dir, cmake_command, rc, err,
                   prep, created, removed, calls>>

\* build_dir = mkdtemp()
MkBuildDir ==
    /\ pc = "mkdtemp"
    /\ \E d \in TmpNames \ dirs :
        /\ build_dir' = d
        /\ dirs' = dirs \cup {d}
        /\ tree' = [x \in dirs \cup {d} |-> IF x = d THEN "empty" ELSE tree[x]]
        /\ created' = created \cup {d}
    /\ steps' = Append(steps, "mkdtemp")
    /\ pc' = "configure"
    /\ UNCHANGED <<params, src_dir, cmake_dir, cmake_command, rc, err, result, prep,
                   removed, calls>>

\* The configure subprocess, and the exit taken when it fails.
Configure ==
    /\ pc = "configure"
    /\ \E r \in 0..MaxRc, e \in Stderrs :
        LET cmd == create_cmake_command(params.cmake, cmake_dir, params.install_dir,
                                        params.defines)
            gone == to_remove(src_dir, params.src, build_dir)
        IN
        /\ cmake_command' = cmd
        /\ calls' = Append(calls, [cmd |-> cmd, cwd |-> build_dir, rc |-> r, err |-> e])
        /\ rc' = r
        /\ err' = e
        /\ IF configure_failed(r) THEN
              /\ dirs' = dirs \ gone
              /\ tree' = [x \in dirs \ gone |-> tree[x]]
              /\ removed' = removed \cup gone
              /\ steps' = steps \o <<"configure", "cleanup">>
              /\ result' = fail_json(MsgBuildFailed(e))
              /\ pc' = "done"
           ELSE
              /\ steps' = Append(steps, "configure")
              /\ pc' = "install"
              /\ UNCHANGED <<dirs, tree, removed, result>>
    /\ UNCHANGED <<params, src_dir, cmake_dir, build_dir, prep, created>>

\* The install subprocess, and the exit taken when it fails.
Install ==
    /\ pc = "install"
    /\ \E r \in 0..MaxRc, e \in Stderrs :
        LET gone == to_remove(src_dir, params.src, build_dir) IN
        /\ calls' = Append(calls, [cmd |-> MakeInstall, cwd |-> build_dir, rc |-> r, err |-> e])
        /\ rc' = r
        /\ err' = e
        /\ IF install_failed(r) THEN
              /\ dirs' = dirs \ gone
              /\ tree' = [x \in dirs \ gone |-> tree[x]]
              /\ removed' = removed \cup gone
              /\ steps' = steps \o <<"install", "cleanup">>
              /\ result' = fail_json(MsgBuildFailed(e))
              /\ pc' = "done"
           ELSE
              /\ steps' = Append(steps, "install")
              /\ pc' = "finish"
              /\ UNCHANGED <<dirs, tree, removed, result>>
    /\ UNCHANGED <<params, src_dir, cmake_dir, build_dir, cmake_command, prep, created>>

\* The cleanup of the success path and exit_json.
Finish ==
    /\ pc = "finish"
    /\ LET gone == to_remove(src_dir, params.src, build_dir) IN
        /\ dirs' = dirs \ gone
        /\ tree' = [x \in dirs \ gone |-> tree[x]]
        /\ removed' = removed \cup gone
    /\ steps' = Append(steps, "cleanup")
    /\ result' = exit_json(TRUE, params.install_dir)
    /\ pc' = "done"
    /\ UNCHANGED <<params, src_dir, cmake_dir, build_dir, cmake_command, rc, err,
                   prep, created, calls>>

Next == Prepare \/ Locate \/ MkBuildDir \/ Configure \/ Install \/ Finish

Spec == Init /\ [][Next]_vars

TypeOK ==
    /\ pc \in {"prepare", "locate", "mkdtemp", "configure", "install", "finish", "done"}
    /\ result.kind \in {"none", "exit_json", "fail_json", "exception"}
    /\ DOMAIN tree = dirs
\* ================================================================ claims
\* The source parameter named a directory when the run started.
SrcWasDir == params.src \in (IF prep.called THEN prep.before ELSE dirs)

\* The source parameter named a file accepted as a tar or as a zip archive.
SrcIsArchive == isfile(params.src) /\ (is_tarfile(params.src) \/ is_zipfile(params.src))

LastCall == calls[Len(calls)]

\* C1: when the run has ended, however it ended, no directory the run created
\* still exists.
C1_CleanupInvariant == pc = "done" => created \cap dirs = {}

\* C2: when src is a pre-existing directory the run never deletes it; the only
\* directory the run removes is its own build directory.
C2_SourceDirKept ==
    SrcWasDir =>
        /\ params.src \in dirs
        /\ tree[params.src] = "project"
        /\ params.src \notin removed
        /\ removed \subseteq {build_dir}
        /\ (pc = "done" => removed = {build_dir})

C2_Witness ==
    /\ pc = "done" /\ SrcWasDir
    /\ Len(calls) = 2 /\ rc # 0
    /\ removed = {build_dir} /\ build_dir # None

\* C3: when src is neither a directory nor a recognized archive, the run ends
\* with the input-error failure, no scratch directory was created and no
\* subprocess was executed.
C3_InputError ==
    (prep.called /\ ~SrcWasDir /\ ~SrcIsArchive) =>
        /\ pc = "done"
        /\ result = fail_json(MsgNoSource)
        /\ created = {}
        /\ dirs = prep.before
        /\ src_dir = None /\ build_dir = None
        /\ calls = <<>>

C3_Witness == pc = "done" /\ params.src = TextFile /\ result.kind = "fail_json"

\* C4: when the configure or the install subprocess exits nonzero, the failure
\* message embeds that step's stderr and its exit code.
C4_MessageEmbedsStderrAndCode ==
    (pc = "done" /\ calls # <<>> /\ LastCall.rc # 0) =>
        /\ result.kind = "fail_json"
        /\ Contains(result.msg, LastCall.err)
        /\ Contains(result.msg, Str(LastCall.rc))

\* C5: every run ends in exactly one of the success Result and the failure
\* Result; none ends by an uncaught exception.
C5_StructuredOutcome == pc = "done" => result.kind \in {"exit_json", "fail_json"}

\* The concatenation of a sequence of strings.
RECURSIVE Flatten(_)
Flatten(ss) == IF ss = <<>> THEN <<>> ELSE ss[1] \o Flatten(Tail(ss))

\* C6: the command is the tool, the install-prefix flag, one -D<name>=<value>
\* per entry of defines in iteration order, then the project directory; with
\* defines None or empty it is '<tool> -DCMAKE_INSTALL_PREFIX=<dir> <project>'.
C6_CommandShape ==
    cmake_command # None =>
        LET c == cmake_command
            its == IF params.defines.none THEN <<>> ELSE params.defines.items
            head == params.cmake \o <<" -DCMAKE_INSTALL_PREFIX=">> \o params.install_dir
            last == <<" ">> \o cmake_dir
            mid == SubSeq(c, Len(head) + 1, Len(c) - Len(last))
        IN
        /\ Len(c) >= Len(head) + Len(last)
        /\ SubSeq(c, 1, Len(head)) = head
        /\ SubSeq(c, Len(c) - Len(last) + 1, Len(c)) = last
        /\ mid = Flatten([i \in 1..Len(its) |->
                            <<" -D">> \o its[i][1] \o <<"=">> \o its[i][2]])
        /\ (its = <<>> => c = head \o last)
        /\ (/\ params.cmake = <<"cmake">> /\ params.install_dir = <<"/opt/x">>
            /\ cmake_dir = ProjDir
            /\ its = << <<DefineName(1), <<"1">> >>, <<DefineName(2), <<"2">> >> >>
            => c = <<"cmake", " -DCMAKE_INSTALL_PREFIX=", "/opt/x",
                     " -D", "FOO", "=", "1", " -D", "BAR", "=", "2", " ", "/tmp/proj">>)

C6_Witness ==
    /\ cmake_command # None
    /\ ~params.defines.none /\ Len(params.defines.items) = 2
    /\ params.defines.items[1][1] = DefineName(2)

\* C7: success is reported only when the source was prepared and both
\* subprocesses exited 0; the record has changed=true and the caller's
\* install_dir.
C7_SuccessOnlyAfterBothSteps ==
    result.kind = "exit_json" =>
        /\ prep.called /\ ~prep.raised /\ ~Falsy(src_dir) /\ src_dir \in prep.after
        /\ Len(calls) = 2
        /\ calls[1].cmd = cmake_command /\ calls[1].rc = 0
        /\ calls[2].cmd = MakeInstall /\ calls[2].rc = 0
        /\ result.changed = TRUE
        /\ result.install_dir = params.install_dir

C7_Witness == result.kind = "exit_json" /\ params.src = TarFile /\ pc = "done"

StepOrder == <<"prepare", "locate", "mkdtemp", "configure", "install", "cleanup">>

\* C8: the steps happen in the order prepare, locate, create build directory,
\* configure, install, cleanup, none twice; configure runs at most once,
\* install at most once and only after configure exited 0, both in the same
\* build directory.
C8_LinearOrder ==
    /\ Len(steps) <= Len(StepOrder)
    /\ \A i \in 1..Len(steps) :
          \/ steps[i] = StepOrder[i]
          \/ steps[i] = "cleanup" /\ i = Len(steps) /\ i >= 5
    /\ Len(calls) <= 2
    /\ Len(calls) >= 1 =>
          /\ calls[1].cmd = cmake_command /\ calls[1].cmd # MakeInstall
          /\ calls[1].cwd = build_dir /\ build_dir \in created
    /\ Len(calls) = 2 =>
          /\ calls[2].cmd = MakeInstall
          /\ calls[1].rc = 0
          /\ calls[2].cwd = calls[1].cwd

C8_Witness == pc = "done" /\ Len(calls) = 2 /\ Len(steps) = 6

\* C9: prepare_if_archive deletes nothing and creates at most one directory;
\* a directory is returned as it is with nothing created; a tar or zip archive
\* gets exactly one new directory, extracted into and returned; anything else
\* returns no directory and creates nothing.
C9_PreparerContract ==
    prep.called =>
        /\ prep.before \subseteq prep.after
        /\ \A x \in prep.before : prep.held[x] = "project"
        /\ Cardinality(prep.after \ prep.before) <= 1
        /\ SrcWasDir => prep.ret = params.src /\ prep.after = prep.before
        /\ (~SrcWasDir /\ SrcIsArchive) =>
              /\ Cardinality(prep.after \ prep.before) = 1
              /\ prep.ret \in prep.after \ prep.before
              /\ ~prep.raised
              /\ prep.held[prep.ret] =
                    (IF is_tarfile(params.src) THEN "tar members" ELSE "zip members")
        /\ (~SrcWasDir /\ ~SrcIsArchive) => prep.ret = None /\ prep.after = prep.before

====
